---- MODULE Spec2Model ----
(***************************************************************************)
(* Model of the agnoresearch research pipeline: the collector functions of *)
(* tools.py (scrape_website, scrape_social, the two searches), the gates,  *)
(* the stages and assemble_report of pipeline.py, and run_pipeline, which  *)
(* sequences them.  One run of run_pipeline is one behaviour; the answers  *)
(* of the fetch engine, the search engine and the language model are      *)
(* chosen nondeterministically at each call.                               *)
(***************************************************************************)
EXTENDS Integers, Sequences, FiniteSets, TLC

VARIABLES
    website_url,      \* argument of run_pipeline
    instagram_url,    \* argument of run_pipeline (NoUrl when not given)
    facebook_url,     \* argument of run_pipeline (NoUrl when not given)
    company_name,     \* argument of run_pipeline (NONE when not given)
    model_id,         \* argument of run_pipeline (NONE when not given)
    pc,               \* position of the run inside run_pipeline / stage_scrape
    attempt,          \* loop variable of the retry loop in progress
    scrape_results,   \* the list of ScrapedContent of the run
    facts,            \* value held by run_pipeline's local facts
    opps,             \* value held by run_pipeline's local opps
    outreach_drafts,  \* value held by run_pipeline's local outreach_drafts
    report,           \* value returned by run_pipeline (NoneV until returned)
    error,            \* exception that left run_pipeline ("" when none)
    log,              \* calls made so far, in order (observation only)
    entry,            \* the entry point that received the request
    research_cache,   \* web.py: the dict research_cache
    response,         \* what the entry point answered (NoneV until it did)
    served            \* web.py: requests answered before the one in progress

vars == <<website_url, instagram_url, facebook_url, company_name, model_id, pc,
          attempt, scrape_results, facts, opps, outreach_drafts, report, error,
          log, entry, research_cache, response, served>>

-----------------------------------------------------------------------------
(* Bounds of the model *)

\* largest number of products the extractor's answer carries in the model
MaxProducts == 2
\* largest number of opportunities the analyzer's answer carries in the model
MaxItems == 2
\* largest number of requests the web application receives in the model
MaxRequests == 3

-----------------------------------------------------------------------------
(* Python values *)

\* None of an Optional[str] argument
NONE == "<None>"

\* None (or "") of an Optional[str] address argument: a str without fragments
NoUrl == <<>>

\* None of an Optional[object] local
NoneV == [type |-> "NoneType"]

\* a non-empty str where an object of a schema class was expected
StrV == [type |-> "str"]

\* truth value of an Optional[str]: None and "" are false
TruthyStr(s) == s # NONE /\ s # ""

\* truth value of an Optional[str] address
TruthyUrl(u) == u # NoUrl

\* truth value of an object: None is false, a non-empty str and a model are true
TruthyObj(v) == v.type # "NoneType"

\* getattr succeeds exactly on the declared fields of the object
HasAttr(v, a) == a \in DOMAIN v

-----------------------------------------------------------------------------
(* Text.  A str is a sequence of fragments; the substring tests of the     *)
(* code are decided fragment by fragment, after lower().                   *)

\* needle in fragment.lower()
FragmentHas(frag, needle) ==
    <<frag, needle>> \in {
        <<"facebook.com/acme", "facebook.com">>,
        <<"facebook.com/acme", "facebook">>,
        <<"instagram.com/acme", "instagram.com">>,
        <<"fb.me/acme", "fb.me">>,
        <<"search:facebook:", "facebook">>,
        <<"search:reviews:", "reviews">>,
        <<"acme-reviews.sg", "reviews">> }

\* needle in url.lower()
UrlHas(url, needle) == \E i \in 1..Len(url) : FragmentHas(url[i], needle)

Url(s) == <<"https://", s>>

WebsiteUrls == { Url("acme.sg"), Url("acme-reviews.sg") }
InstagramUrls == { Url("instagram.com/acme") }
FacebookUrls == { Url("facebook.com/acme"), Url("fb.me/acme") }
CompanyNames == { "Acme" }

-----------------------------------------------------------------------------
(* schemas.py *)

\* ScrapedContent
ScrapedContent(url, success, content, err) ==
    [url |-> url, success |-> success, content |-> content, error |-> err]

\* CompanyFacts with n products
CompanyFacts(name, n, src) ==
    [type |-> "CompanyFacts", company_name |-> name, industry |-> "industry",
     what_they_do |-> "what_they_do", products |-> [i \in 1..n |-> i],
     source_url |-> src]

\* Opportunity number i
Opportunity(i) ==
    [area |-> "area", idea |-> i, why |-> "why", complexity |-> "Low"]

\* Opportunities with n items; the class declares the field items only
Opportunities(n) ==
    [type |-> "Opportunities", items |-> [i \in 1..n |-> Opportunity(i)]]

\* OutreachDrafts
OutreachDrafts ==
    [type |-> "OutreachDrafts", whatsapp_drafts |-> 1, email_drafts |-> 1]

\* AIOpportunity built from an Opportunity by assemble_report
AIOpportunity(opp) ==
    [area |-> opp.area, opportunity |-> opp.idea, rationale |-> opp.why,
     complexity |-> opp.complexity, evidence |-> <<>>]

-----------------------------------------------------------------------------
(* tools.py: the collector *)

MAX_RETRIES == 2

\* what one call of asyncio.run(_browse_url_async(url)) can do: return the
\* page, the minimal-content notice, a "Failed to fetch" text, an "Error"
\* text, or raise
BrowseUrlOutcomes == {"page", "minimal", "failed_to_fetch", "error_text", "raise"}

\* what one call of asyncio.run(_browse_instagram_async(url)) can do: return
\* the extracted profile, a profile whose page text holds the word Error,
\* the limited-data notice, a "Failed to fetch" text, an "Error" text, or raise
BrowseInstagramOutcomes ==
    {"profile", "profile_error_word", "limited", "failed_to_fetch", "error_text", "raise"}

\* content.startswith("Failed to fetch") or content.startswith("Error")
StartsWithFailure(content) == content \in {"failed_to_fetch", "error_text"}

\* "Failed to fetch" in content or "Error" in content
ContainsFailure(content) ==
    content \in {"failed_to_fetch", "error_text", "profile_error_word"}

\* "may require login" in content.lower() or len(content.strip()) < 200
LimitedData(content) == content = "limited"

\* error text of a failed attempt: the returned text, or str(e)
ErrorText(o) == IF o = "raise" THEN "str(e)" ELSE o

\* attempt < MAX_RETRIES - 1
RetryAllowed_NoRetry(att) == att < MAX_RETRIES - 2
RetryAllowed(att) == att < MAX_RETRIES - 1

\* the step of a retry loop: stop with a result, or sleep and go round again
Retry == [retry |-> TRUE]
Return(res) == [retry |-> FALSE, result |-> res]

\* one iteration of the loop of scrape_website, the fetch answering o
ScrapeWebsiteAttempt(url, att, o) ==
    IF o = "raise" \/ StartsWithFailure(o)
    THEN IF RetryAllowed(att)
         THEN Retry
         ELSE Return(ScrapedContent(url, FALSE, "", ErrorText(o)))
    ELSE Return(ScrapedContent(url, TRUE, o, NONE))

\* one iteration of the instagram loop of scrape_social, the fetch answering o
ScrapeInstagramAttempt(url, att, o) ==
    IF o = "raise" \/ ContainsFailure(o)
    THEN IF RetryAllowed(att)
         THEN Retry
         ELSE Return(ScrapedContent(url, FALSE, "", ErrorText(o)))
    ELSE IF LimitedData(o)
         THEN Return(ScrapedContent(url, FALSE, o, "limited_data"))
         ELSE Return(ScrapedContent(url, TRUE, o, NONE))

\* the platform scrape_social takes the address for
SocialPlatform_FetchesFacebook(url) ==
    IF UrlHas(url, "instagram.com") \/ UrlHas(url, "facebook.com") THEN "instagram"
    ELSE "unsupported"
SocialPlatform(url) ==
    IF UrlHas(url, "facebook.com") THEN "facebook"
    ELSE IF UrlHas(url, "instagram.com") THEN "instagram"
    ELSE "unsupported"

\* the result scrape_social returns without any fetch
ScrapeSocialNoFetch(url) ==
    IF SocialPlatform(url) = "facebook"
    THEN ScrapedContent(url, FALSE, "", "facebook_blocks")
    ELSE ScrapedContent(url, FALSE, "", "unsupported_platform")

\* what one search through DDGS can do
SearchOutcomes == {"results", "empty", "import_error", "raise"}

\* the body shared by search_facebook_structured and search_google_reviews
SearchResult(prefix, name, o) ==
    LET url == <<prefix, name>> IN
    IF o = "results" THEN ScrapedContent(url, TRUE, "search_results", NONE)
    ELSE IF o = "empty" THEN ScrapedContent(url, FALSE, "", "no_results")
    ELSE IF o = "import_error" THEN ScrapedContent(url, FALSE, "", "not_installed")
    ELSE ScrapedContent(url, FALSE, "", "str(e)")

search_facebook_structured(name, o) == SearchResult("search:facebook:", name, o)

search_google_reviews(name, o) == SearchResult("search:reviews:", name, o)

-----------------------------------------------------------------------------
(* tools.py: the length of the content the collector returns *)

MAX_CONTENT_LENGTH == 8000

\* len("\n\n[Content truncated...]")
TruncationMarkLength == 24

\* the length under which scrape_social takes an Instagram text for limited data
MinProfileLength == 200

\* a text returned by the fetch engine or built from the search results:
\* what it says, and its length in characters
Text(kind, n) == [kind |-> kind, len |-> n]

\* if len(content) > MAX_CONTENT_LENGTH:
\*     content = content[:MAX_CONTENT_LENGTH] + "\n\n[Content truncated...]"
Truncate(text) ==
    IF text.len > MAX_CONTENT_LENGTH
    THEN Text(text.kind, MAX_CONTENT_LENGTH + TruncationMarkLength)
    ELSE text

\* ScrapedContent with its content and content_length; content and
\* content_length default to "" and 0
SizedContent(url, success, text, err, n) ==
    [url |-> url, success |-> success, content |-> text, error |-> err,
     content_length |-> n]
NoText == Text("", 0)

\* what scrape_website returns for the text of its last attempt
scrape_website_text(url, text) ==
    IF StartsWithFailure(text.kind)
    THEN SizedContent(url, FALSE, NoText, text.kind, 0)
    ELSE LET content == Truncate(text)
         IN  SizedContent(url, TRUE, content, NONE, content.len)

\* what scrape_social returns for the Instagram text of its last attempt
scrape_social_text(url, text) ==
    IF ContainsFailure(text.kind)
    THEN SizedContent(url, FALSE, NoText, text.kind, 0)
    ELSE IF LimitedData(text.kind) \/ text.len < MinProfileLength
    THEN SizedContent(url, FALSE, text, "limited_data", text.len)
    ELSE LET content == Truncate(text)
         IN  SizedContent(url, TRUE, content, NONE, content.len)

\* what a search returns for the output built from a non-empty result list
search_text(prefix, name, text) ==
    SizedContent(<<prefix, name>>, TRUE, text, NONE, text.len)

\* what a search returns when no result was found or the library is missing
search_failed(prefix, name, o) ==
    SizedContent(<<prefix, name>>, FALSE, NoText,
                 IF o = "empty" THEN "no_results" ELSE "not_installed", 0)

\* str(e) of an exception of the fetch engine or of the search engine: the
\* message it was raised with, which may be empty
ExceptionTexts == {"str(e)", ""}

\* except Exception as e: return ScrapedContent(url=..., success=False, error=str(e))
raised_result(url, message) == SizedContent(url, FALSE, NoText, message, 0)

-----------------------------------------------------------------------------
(* pipeline.py: gates and assembler *)

\* an exception raised instead of a value
Raise(name) == [type |-> "Exception", name |-> name]
IsRaise(v) == v.type = "Exception"

validate_scrape_NonEmpty(results) == Len(results) >= 1
validate_scrape(results) == \E i \in 1..Len(results) : results[i].success

validate_facts_Either(f) == f.company_name # "" \/ Len(f.products) >= 1
validate_facts(f) == f.company_name # "" /\ Len(f.products) >= 1

validate_opportunities_AcceptsEmpty(o) == Len(o.items) >= 0
validate_opportunities(o) == Len(o.items) >= 1

Succeeded(s) == s.success
Failed(s) == ~s.success

\* the line notes.append(f"Failed to scrape {s.url}: {s.error}")
NoteLine(s) == [kind |-> "failed_to_scrape", url |-> s.url, error |-> s.error]

\* the text "Extraction failed - no content could be processed."
ExtractionFailedNote == [kind |-> "extraction_failed"]

\* the list notes of assemble_report; the text research_notes is the lines
\* joined, and None exactly when the list is empty
ResearchNotes_All(results) == [i \in 1..Len(results) |-> NoteLine(results[i])]
ResearchNotes(results) ==
    LET failed == SelectSeq(results, Failed)
    IN  [i \in 1..Len(failed) |-> NoteLine(failed[i])]

\* [s.url for s in successful_scrapes]
Sources_All(results) == [i \in 1..Len(results) |-> results[i].url]
Sources(results) ==
    LET ok == SelectSeq(results, Succeeded)
    IN  [i \in 1..Len(ok) |-> ok[i].url]

\* the quality score of the report built from Facts
QualityScore(n) ==
    IF n >= 3 THEN "High" ELSE IF n >= 2 THEN "Medium" ELSE "Low"

ResearchQuality(found, ok, failed, evidence, score) ==
    [sources_found |-> found, urls_successfully_scraped |-> ok,
     urls_failed |-> failed, evidence_pieces |-> evidence,
     quality_score |-> score]

\* the report returned when facts is None
PlaceholderReport(results) ==
    LET nOk == Len(SelectSeq(results, Succeeded))
        nFailed == Len(SelectSeq(results, Failed))
        notes == ResearchNotes(results)
    IN  [type |-> "CompanyResearchReport",
         company_name |-> "Unknown",
         industry |-> "Unknown",
         overview |-> "could_not_extract",
         products_services |-> <<>>,
         digital_maturity |-> "Unknown",
         ai_opportunities |-> <<>>,
         outreach_drafts |-> NoneV,
         sources |-> Sources(results),
         research_quality |-> ResearchQuality(Len(results), nOk, nFailed, 0, "Low"),
         data_quality |-> "Low",
         research_notes |-> IF notes # <<>> THEN notes ELSE <<ExtractionFailedNote>>]

\* the report built from Facts
FactsReport_DefaultDataQuality(f, o, results, drafts) ==
    LET nOk == Len(SelectSeq(results, Succeeded))
        nFailed == Len(SelectSeq(results, Failed))
        ai == IF TruthyObj(o)
              THEN [i \in 1..Len(o.items) |-> AIOpportunity(o.items[i])]
              ELSE <<>>
        score == QualityScore(nOk)
    IN  [type |-> "CompanyResearchReport",
         company_name |-> f.company_name,
         industry |-> f.industry,
         overview |-> f.what_they_do,
         products_services |-> f.products,
         digital_maturity |-> "Medium",
         ai_opportunities |-> ai,
         outreach_drafts |-> drafts,
         sources |-> Sources(results),
         research_quality |-> ResearchQuality(Len(results), nOk, nFailed, Len(ai), score),
         data_quality |-> "Medium",
         research_notes |-> ResearchNotes(results)]
FactsReport(f, o, results, drafts) ==
    LET nOk == Len(SelectSeq(results, Succeeded))
        nFailed == Len(SelectSeq(results, Failed))
        ai == IF TruthyObj(o)
              THEN [i \in 1..Len(o.items) |-> AIOpportunity(o.items[i])]
              ELSE <<>>
        score == QualityScore(nOk)
    IN  [type |-> "CompanyResearchReport",
         company_name |-> f.company_name,
         industry |-> f.industry,
         overview |-> f.what_they_do,
         products_services |-> f.products,
         digital_maturity |-> "Medium",
         ai_opportunities |-> ai,
         outreach_drafts |-> drafts,
         sources |-> Sources(results),
         research_quality |-> ResearchQuality(Len(results), nOk, nFailed, Len(ai), score),
         data_quality |-> score,
         research_notes |-> ResearchNotes(results)]

\* assemble_report: a report, or the exception it raises
assemble_report_DefaultDrafts(f, o, results, drafts) ==
    IF ~TruthyObj(f) THEN PlaceholderReport(results)
    ELSE FactsReport(f, o, results, OutreachDrafts)
assemble_report_NoFallbackNote(f, o, results, drafts) ==
    IF ~TruthyObj(f)
    THEN [PlaceholderReport(results) EXCEPT !.research_notes = ResearchNotes(results)]
    ELSE FactsReport(f, o, results, drafts)
assemble_report_NoReport(f, o, results, drafts) ==
    IF ~TruthyObj(f) THEN NoneV
    ELSE FactsReport(f, o, results, drafts)
assemble_report(f, o, results, drafts) ==
    IF ~TruthyObj(f) THEN PlaceholderReport(results)
    ELSE IF TruthyObj(o) /\ ~HasAttr(o, "items") THEN Raise("AttributeError")
    ELSE IF ~HasAttr(f, "company_name") THEN Raise("AttributeError")
    ELSE IF drafts.type \notin {"NoneType", "OutreachDrafts"} THEN Raise("ValidationError")
    ELSE FactsReport(f, o, results, drafts)

-----------------------------------------------------------------------------
(* The calls of a run, in order *)

Event(op, arg) == [op |-> op, arg |-> arg]

\* number of calls op in the log l
RECURSIVE Count(_, _)
Count(l, op) ==
    IF l = <<>> THEN 0
    ELSE (IF Head(l).op = op THEN 1 ELSE 0) + Count(Tail(l), op)

\* number of calls op with argument arg in the log l
RECURSIVE CountArg(_, _, _)
CountArg(l, op, arg) ==
    IF l = <<>> THEN 0
    ELSE (IF Head(l).op = op /\ Head(l).arg = arg THEN 1 ELSE 0)
         + CountArg(Tail(l), op, arg)

-----------------------------------------------------------------------------
(* pipeline.py: stage_scrape *)

Init ==
    /\ website_url \in WebsiteUrls
    /\ instagram_url \in InstagramUrls \cup {NoUrl}
    /\ facebook_url \in FacebookUrls \cup {NoUrl}
    /\ company_name \in CompanyNames \cup {NONE}
    /\ model_id = NONE
    /\ pc = "scrape_website"
    /\ attempt = 0
    /\ scrape_results = <<>>
    /\ facts = NoneV
    /\ opps = NoneV
    /\ outreach_drafts = NoneV
    /\ report = NoneV
    /\ error = ""
    /\ log = <<>>
    /\ entry = "run_pipeline"
    /\ research_cache = {}
    /\ response = NoneV
    /\ served = 0

\* where stage_scrape goes after the review search is decided
AfterFacebook == IF TruthyStr(company_name) THEN "search_reviews" ELSE "gate1"

\* where stage_scrape goes after scrape_social(facebook_url) returned a result
\* with the given success flag
AfterScrapeFacebook(success) ==
    IF ~success /\ TruthyStr(company_name) THEN "search_facebook"
    ELSE AfterFacebook

\* where stage_scrape goes after the instagram address is handled
AfterInstagram ==
    IF TruthyUrl(facebook_url) THEN "scrape_facebook"
    ELSE IF TruthyStr(company_name) THEN "search_facebook"
    ELSE AfterFacebook

\* where stage_scrape goes after scrape_website
AfterWebsite ==
    IF TruthyUrl(instagram_url) THEN "scrape_instagram" ELSE AfterInstagram

RunLocals == <<facts, opps, outreach_drafts, report, error>>
RunArgs == <<website_url, instagram_url, facebook_url, company_name, model_id>>

\* the state of the caller of run_pipeline, which no step of a run touches
Caller == <<entry, research_cache, response, served>>

\* one iteration of the retry loop of scrape_website(website_url)
ScrapeWebsite ==
    /\ pc = "scrape_website"
    /\ IF attempt >= MAX_RETRIES
       THEN /\ scrape_results' = Append(scrape_results,
                   ScrapedContent(website_url, FALSE, "", "max_retries_exceeded"))
            /\ attempt' = 0
            /\ pc' = AfterWebsite
            /\ log' = log
       ELSE \E o \in BrowseUrlOutcomes :
              LET r == ScrapeWebsiteAttempt(website_url, attempt, o) IN
              IF r.retry
              THEN /\ attempt' = attempt + 1
                   /\ log' = log \o <<Event("fetch", website_url),
                                      Event("sleep", website_url)>>
                   /\ UNCHANGED <<pc, scrape_results>>
              ELSE /\ attempt' = 0
                   /\ log' = Append(log, Event("fetch", website_url))
                   /\ scrape_results' = Append(scrape_results, r.result)
                   /\ pc' = AfterWebsite
    /\ UNCHANGED <<Caller, RunArgs, RunLocals>>

\* one step of scrape_social(url): the immediate return for an address that
\* is not fetched, or one iteration of the instagram retry loop
ScrapeSocialStep(url, nextOk, nextFailed) ==
    /\ IF SocialPlatform(url) # "instagram"
       THEN /\ scrape_results' = Append(scrape_results, ScrapeSocialNoFetch(url))
            /\ attempt' = 0
            /\ pc' = nextFailed
            /\ log' = log
       ELSE IF attempt >= MAX_RETRIES
       THEN /\ scrape_results' = Append(scrape_results, ScrapeSocialNoFetch(url))
            /\ attempt' = 0
            /\ pc' = nextFailed
            /\ log' = log
       ELSE \E o \in BrowseInstagramOutcomes :
              LET r == ScrapeInstagramAttempt(url, attempt, o) IN
              IF r.retry
              THEN /\ attempt' = attempt + 1
                   /\ log' = log \o <<Event("fetch", url), Event("sleep", url)>>
                   /\ UNCHANGED <<pc, scrape_results>>
              ELSE /\ attempt' = 0
                   /\ log' = Append(log, Event("fetch", url))
                   /\ scrape_results' = Append(scrape_results, r.result)
                   /\ pc' = IF r.result.success THEN nextOk ELSE nextFailed
    /\ UNCHANGED <<Caller, RunArgs, RunLocals>>

\* instagram_result = scrape_social(instagram_url)
ScrapeInstagram ==
    /\ pc = "scrape_instagram"
    /\ ScrapeSocialStep(instagram_url, AfterInstagram, AfterInstagram)

\* facebook_result = scrape_social(facebook_url)
ScrapeFacebook ==
    /\ pc = "scrape_facebook"
    /\ ScrapeSocialStep(facebook_url, AfterScrapeFacebook(TRUE), AfterScrapeFacebook(FALSE))

\* search_result = search_facebook_structured(company_name), in stage_scrape
SearchFacebook ==
    /\ pc = "search_facebook"
    /\ \E o \in SearchOutcomes :
         scrape_results' = Append(scrape_results,
                                  search_facebook_structured(company_name, o))
    /\ log' = Append(log, Event("search_facebook", <<company_name>>))
    /\ pc' = AfterFacebook
    /\ UNCHANGED <<Caller, RunArgs, RunLocals, attempt>>

\* review_result = search_google_reviews(company_name, location), in stage_scrape
SearchReviews ==
    /\ pc = "search_reviews"
    /\ \E o \in SearchOutcomes :
         scrape_results' = Append(scrape_results,
                                  search_google_reviews(company_name, o))
    /\ log' = Append(log, Event("search_reviews", <<company_name>>))
    /\ pc' = "gate1"
    /\ UNCHANGED <<Caller, RunArgs, RunLocals, attempt>>

-----------------------------------------------------------------------------
(* pipeline.py: the language-model stages *)

\* the default of stage_extract and stage_analyze for model_id
DefaultModel == "gpt-oss:20b"

\* model selectors a caller can give
ModelIds == {"custom-model"}

\* extract_model = model_id or "gpt-oss:20b", given to stage_extract and stage_analyze
ExtractModel(m) == IF TruthyStr(m) THEN m ELSE DefaultModel

\* the model_id stage_outreach receives: run_pipeline calls
\* stage_outreach(facts, opps, review_content=review_content), which leaves
\* the parameter at its default None
OutreachModelArg(m) == NONE

\* names the extractor can put in CompanyFacts.company_name
ExtractedNames == {"", "Acme"}

\* products: list[str] = Field(default_factory=list, max_length=5)
MaxLenProducts == 5
\* items: list[Opportunity] = Field(..., min_length=1, max_length=4)
MaxLenItems == 4

\* how many products, how many items the language model may write in its
\* answer: up to the model's bound, or one more than the schema admits
ProductCounts == 0..MaxProducts \cup {MaxLenProducts + 1}
ItemCounts == 0..MaxItems \cup {MaxLenItems + 1}

\* output_schema=CompanyFacts: an answer with more products than max_length
\* does not validate and is no CompanyFacts; what the agent hands back then
\* is nothing or the raw str
ValidFacts_AnyLength(f) == TRUE
ValidFacts(f) == Len(f.products) <= MaxLenProducts

\* output_schema=Opportunities: an answer with more items than max_length
\* does not validate; an empty items list is left to validate_opportunities
ValidOpportunities(o) == Len(o.items) <= MaxLenItems

\* what agent.run(prompt).content of the extractor can be: nothing, a str
\* that was not parsed into the schema, or a CompanyFacts
ExtractorAnswers(src) ==
    {NoneV, StrV} \cup
    { f \in { CompanyFacts(name, n, src) :
                 name \in ExtractedNames, n \in ProductCounts } : ValidFacts(f) }

\* what agent.run(prompt).content of the analyzer can be
AnalyzerAnswers ==
    {NoneV, StrV} \cup
    { o \in { Opportunities(n) : n \in ItemCounts } : ValidOpportunities(o) }

\* what agent.run(prompt).content of the outreach writer can be
ComposerAnswers == {NoneV, StrV, OutreachDrafts}

\* [r for r in scrape_results if r.success and r.content]
SuccessfulContent_ContentOnly(results) ==
    SelectSeq(results, LAMBDA r : r.content # "")
SuccessfulContent(results) ==
    SelectSeq(results, LAMBDA r : r.success /\ r.content # "")

\* run_pipeline ends: v is returned, or the exception v leaves it
Finish(v) ==
    /\ pc' = "done"
    /\ IF IsRaise(v)
       THEN /\ error' = v.name
            /\ report' = report
       ELSE /\ report' = v
            /\ error' = error

\* checkpoint 1: if not validate_scrape(scrape_results): return assemble_report(...)
Gate1 ==
    /\ pc = "gate1"
    /\ IF ~validate_scrape(scrape_results)
       THEN /\ Finish(assemble_report(NoneV, NoneV, scrape_results, NoneV))
            /\ log' = Append(log, Event("assemble_report", <<>>))
       ELSE /\ pc' = "extract"
            /\ UNCHANGED <<report, error, log>>
    /\ UNCHANGED <<Caller, RunArgs, attempt, scrape_results, facts, opps, outreach_drafts>>

\* facts = stage_extract(scrape_results, model_id=extract_model)
Extract ==
    /\ pc = "extract"
    /\ LET ok == SuccessfulContent(scrape_results) IN
       IF ok = <<>>
       THEN /\ facts' = NoneV
            /\ log' = Append(log, Event("stage_extract", <<ExtractModel(model_id)>>))
            /\ pc' = "gate2"
            /\ UNCHANGED <<report, error>>
       ELSE \/ \E a \in ExtractorAnswers(ok[1].url) :
                 /\ facts' = a
                 /\ log' = log \o <<Event("stage_extract", <<ExtractModel(model_id)>>),
                                    Event("agent_run", ok[1].url)>>
                 /\ pc' = "gate2"
                 /\ UNCHANGED <<report, error>>
            \/ /\ log' = log \o <<Event("stage_extract", <<ExtractModel(model_id)>>),
                                  Event("agent_run", ok[1].url)>>
               /\ Finish(Raise("AgentError"))
               /\ UNCHANGED facts
    /\ UNCHANGED <<Caller, RunArgs, attempt, scrape_results, opps, outreach_drafts>>

\* checkpoint 2: if not facts or not validate_facts(facts): return assemble_report(...)
Gate2 ==
    /\ pc = "gate2"
    /\ IF ~TruthyObj(facts)
       THEN /\ Finish(assemble_report(facts, NoneV, scrape_results, NoneV))
            /\ log' = Append(log, Event("assemble_report", <<>>))
       ELSE IF ~(HasAttr(facts, "company_name") /\ HasAttr(facts, "products"))
       THEN /\ Finish(Raise("AttributeError"))
            /\ log' = log
       ELSE IF ~validate_facts(facts)
       THEN /\ Finish(assemble_report(facts, NoneV, scrape_results, NoneV))
            /\ log' = Append(log, Event("assemble_report", <<>>))
       ELSE /\ pc' = "enrich_facebook"
            /\ UNCHANGED <<report, error, log>>
    /\ UNCHANGED <<Caller, RunArgs, attempt, scrape_results, facts, opps, outreach_drafts>>

\* [r for r in scrape_results if needle in r.url.lower()]
ResultsWith_Unfiltered(results, needle) == results
ResultsWith(results, needle) ==
    SelectSeq(results, LAMBDA r : UrlHas(r.url, needle))

\* if not any(r.success for r in fb_results): append search_facebook_structured(...)
EnrichFacebook_Prepends ==
    /\ pc = "enrich_facebook"
    /\ IF ~validate_scrape(ResultsWith(scrape_results, "facebook"))
       THEN /\ \E o \in SearchOutcomes :
                 scrape_results' =
                     <<search_facebook_structured(facts.company_name, o)>>
                         \o scrape_results
            /\ log' = Append(log, Event("search_facebook", <<facts.company_name>>))
       ELSE UNCHANGED <<scrape_results, log>>
    /\ pc' = "enrich_reviews"
    /\ UNCHANGED <<Caller, RunArgs, attempt, RunLocals>>
EnrichFacebook ==
    /\ pc = "enrich_facebook"
    /\ IF ~validate_scrape(ResultsWith(scrape_results, "facebook"))
       THEN /\ \E o \in SearchOutcomes :
                 scrape_results' = Append(scrape_results,
                     search_facebook_structured(facts.company_name, o))
            /\ log' = Append(log, Event("search_facebook", <<facts.company_name>>))
       ELSE UNCHANGED <<scrape_results, log>>
    /\ pc' = "enrich_reviews"
    /\ UNCHANGED <<Caller, RunArgs, attempt, RunLocals>>

\* if not review_results: append search_google_reviews(...)
EnrichReviews_RetriesOnFailure ==
    /\ pc = "enrich_reviews"
    /\ IF ResultsWith(scrape_results, "reviews") = <<>>
       THEN /\ \E o \in SearchOutcomes :
                 /\ scrape_results' = Append(scrape_results,
                        search_google_reviews(facts.company_name, o))
                 /\ pc' = IF o = "results" THEN "analyze" ELSE "enrich_facebook"
            /\ log' = Append(log, Event("search_reviews", <<facts.company_name>>))
       ELSE /\ pc' = "analyze"
            /\ UNCHANGED <<scrape_results, log>>
    /\ UNCHANGED <<Caller, RunArgs, attempt, RunLocals>>
EnrichReviews ==
    /\ pc = "enrich_reviews"
    /\ IF ResultsWith(scrape_results, "reviews") = <<>>
       THEN /\ \E o \in SearchOutcomes :
                 scrape_results' = Append(scrape_results,
                     search_google_reviews(facts.company_name, o))
            /\ log' = Append(log, Event("search_reviews", <<facts.company_name>>))
       ELSE UNCHANGED <<scrape_results, log>>
    /\ pc' = "analyze"
    /\ UNCHANGED <<Caller, RunArgs, attempt, RunLocals>>

\* opps = stage_analyze(facts, model_id=extract_model)
Analyze_Recollects ==
    /\ pc = "analyze"
    /\ log' = log \o <<Event("stage_analyze", <<ExtractModel(model_id)>>),
                        Event("search_reviews", <<facts.company_name>>),
                        Event("agent_run", <<>>)>>
    /\ \E o \in SearchOutcomes :
          scrape_results' = Append(scrape_results,
                                   search_google_reviews(facts.company_name, o))
    /\ \/ \E a \in AnalyzerAnswers :
            /\ opps' = a
            /\ pc' = "gate3"
            /\ UNCHANGED <<report, error>>
       \/ /\ Finish(Raise("AgentError"))
          /\ UNCHANGED opps
    /\ UNCHANGED <<Caller, RunArgs, attempt, facts, outreach_drafts>>
Analyze ==
    /\ pc = "analyze"
    /\ log' = log \o <<Event("stage_analyze", <<ExtractModel(model_id)>>),
                        Event("agent_run", <<>>)>>
    /\ \/ \E a \in AnalyzerAnswers :
            /\ opps' = a
            /\ pc' = "gate3"
            /\ UNCHANGED <<report, error>>
       \/ /\ Finish(Raise("AgentError"))
          /\ UNCHANGED opps
    /\ UNCHANGED <<Caller, RunArgs, attempt, scrape_results, facts, outreach_drafts>>

\* checkpoint 3: if not opps or not validate_opportunities(opps): opps = None
Gate3 ==
    /\ pc = "gate3"
    /\ IF ~TruthyObj(opps)
       THEN /\ opps' = NoneV
            /\ pc' = "outreach"
            /\ UNCHANGED <<report, error>>
       ELSE IF ~HasAttr(opps, "items")
       THEN /\ Finish(Raise("AttributeError"))
            /\ UNCHANGED opps
       ELSE /\ opps' = IF validate_opportunities(opps) THEN opps ELSE NoneV
            /\ pc' = "outreach"
            /\ UNCHANGED <<report, error>>
    /\ UNCHANGED <<Caller, RunArgs, attempt, scrape_results, facts, outreach_drafts, log>>

\* the guard of stage 4: if facts and opps
OutreachGuard_FactsOnly(f, o) == TruthyObj(f)
OutreachGuard(f, o) == TruthyObj(f) /\ TruthyObj(o)

\* stage_outreach reads opps.conversation_starters and opps.recommended_hook
\* before it builds the prompt
ReadsHooks(o) == HasAttr(o, "conversation_starters") /\ HasAttr(o, "recommended_hook")

\* outreach_drafts = None; if facts and opps: outreach_drafts = stage_outreach(...)
Outreach ==
    /\ pc = "outreach"
    /\ IF ~OutreachGuard(facts, opps)
       THEN /\ outreach_drafts' = NoneV
            /\ pc' = "assemble"
            /\ UNCHANGED <<report, error, log>>
       ELSE IF ~ReadsHooks(opps)
       THEN /\ log' = Append(log, Event("stage_outreach", <<OutreachModelArg(model_id)>>))
            /\ Finish(Raise("AttributeError"))
            /\ UNCHANGED outreach_drafts
       ELSE /\ log' = log \o <<Event("stage_outreach", <<OutreachModelArg(model_id)>>), Event("agent_run", <<>>)>>
            /\ \/ \E a \in ComposerAnswers :
                    /\ outreach_drafts' = a
                    /\ pc' = "assemble"
                    /\ UNCHANGED <<report, error>>
               \/ /\ Finish(Raise("AgentError"))
                  /\ UNCHANGED outreach_drafts
    /\ UNCHANGED <<Caller, RunArgs, attempt, scrape_results, facts, opps>>

\* stage 5: return assemble_report(facts, opps, scrape_results, outreach_drafts)
Assemble_ConsumesFailures ==
    /\ pc = "assemble"
    /\ log' = Append(log, Event("assemble_report", <<>>))
    /\ Finish(assemble_report(facts, opps, scrape_results, outreach_drafts))
    /\ scrape_results' = SelectSeq(scrape_results, Succeeded)
    /\ UNCHANGED <<Caller, RunArgs, attempt, facts, opps, outreach_drafts>>
Assemble ==
    /\ pc = "assemble"
    /\ log' = Append(log, Event("assemble_report", <<>>))
    /\ Finish(assemble_report(facts, opps, scrape_results, outreach_drafts))
    /\ UNCHANGED <<Caller, RunArgs, attempt, scrape_results, facts, opps, outreach_drafts>>

Next ==
    \/ ScrapeWebsite
    \/ ScrapeInstagram
    \/ ScrapeFacebook
    \/ SearchFacebook
    \/ SearchReviews
    \/ Gate1
    \/ Extract
    \/ Gate2
    \/ EnrichFacebook
    \/ EnrichReviews
    \/ Analyze
    \/ Gate3
    \/ Outreach
    \/ Assemble

Spec == Init /\ [][Next]_vars

\* every collaborator call returns: a run that can take a step takes one
SpecFair == Spec /\ WF_vars(Next)

\* runs of run_pipeline with and without a model selector
InitSelector ==
    /\ website_url = Url("acme.sg")
    /\ instagram_url \in InstagramUrls
    /\ facebook_url = Url("facebook.com/acme")
    /\ company_name \in CompanyNames \cup {NONE}
    /\ model_id \in ModelIds \cup {NONE}
    /\ pc = "scrape_website"
    /\ attempt = 0
    /\ scrape_results = <<>>
    /\ facts = NoneV
    /\ opps = NoneV
    /\ outreach_drafts = NoneV
    /\ report = NoneV
    /\ error = ""
    /\ log = <<>>
    /\ entry = "run_pipeline"
    /\ research_cache = {}
    /\ response = NoneV
    /\ served = 0

SpecSelector == InitSelector /\ [][Next]_vars

-----------------------------------------------------------------------------
(* tools.py: one call of a collector function on a text of a given length *)

\* how far from MAX_CONTENT_LENGTH the lengths of the model go
MaxOver == 5

\* lengths of the texts the collector is given
FetchedLengths ==
    {0, MinProfileLength - 1, MinProfileLength}
    \cup ((MAX_CONTENT_LENGTH - MaxOver)..(MAX_CONTENT_LENGTH + MaxOver))

\* lengths of a text that starts with a heading or a failure message, as
\* every text of _browse_url_async and every search output does
HeadedLengths == FetchedLengths \ {0}

InitCollector ==
    /\ website_url = Url("acme.sg")
    /\ instagram_url = Url("instagram.com/acme")
    /\ facebook_url = NoUrl
    /\ company_name = "Acme"
    /\ model_id = NONE
    /\ pc = "collect"
    /\ attempt = MAX_RETRIES - 1
    /\ scrape_results = <<>>
    /\ facts = NoneV
    /\ opps = NoneV
    /\ outreach_drafts = NoneV
    /\ report = NoneV
    /\ error = ""
    /\ log = <<>>
    /\ entry = "collector"
    /\ research_cache = {}
    /\ response = NoneV
    /\ served = 0

\* the collector function returns r for the text
Collected(text, r) ==
    /\ pc = "collect"
    /\ scrape_results' = <<r>>
    /\ log' = <<Event("fetch", <<text.kind, text.len>>)>>
    /\ pc' = "collected"
    /\ UNCHANGED <<Caller, RunArgs, RunLocals, attempt>>

\* scrape_website(website_url), the last attempt answering a text
CollectWebsite ==
    \E k \in BrowseUrlOutcomes \ {"raise"}, n \in HeadedLengths :
        Collected(Text(k, n), scrape_website_text(website_url, Text(k, n)))

\* scrape_social(instagram_url), the last attempt answering a text
CollectInstagram ==
    \E k \in BrowseInstagramOutcomes \ {"raise"}, n \in FetchedLengths :
        Collected(Text(k, n), scrape_social_text(instagram_url, Text(k, n)))

\* search_facebook_structured and search_google_reviews, results found
CollectSearch ==
    \E prefix \in {"search:facebook:", "search:reviews:"}, n \in HeadedLengths :
        Collected(Text("search_results", n),
                  search_text(prefix, company_name, Text("search_results", n)))

\* the two searches, nothing found or the search library missing
CollectSearchFailed ==
    \E prefix \in {"search:facebook:", "search:reviews:"}, o \in {"empty", "import_error"} :
        Collected(Text(o, 0), search_failed(prefix, company_name, o))

\* the targets of the collector functions
CollectorTargets ==
    {website_url, instagram_url,
     <<"search:facebook:", company_name>>, <<"search:reviews:", company_name>>}

\* a collector function whose last attempt raised
CollectRaised ==
    \E url \in CollectorTargets, message \in ExceptionTexts :
        Collected(Text("raise", 0), raised_result(url, message))

NextCollector ==
    \/ CollectWebsite
    \/ CollectInstagram
    \/ CollectSearch
    \/ CollectSearchFailed
    \/ CollectRaised

SpecCollector == InitCollector /\ [][NextCollector]_vars

-----------------------------------------------------------------------------
(* web.py: research, api_research; pipeline.py: the command line *)

WebEntries == {"research", "api_research"}

\* the command line was given no website_url argument
ArgvMissing == <<"<no argument>">>

\* what an entry point answers: a rendered page, a JSON body with its
\* status, or the exit of the command-line process
Response(kind, status, err, body) ==
    [type |-> "Response", kind |-> kind, status |-> status, error |-> err,
     body |-> body]

\* the dict an entry point stores in research_cache for a report
CacheValue(e, r) ==
    IF e = "research"
    THEN [company_name |-> r.company_name, industry |-> r.industry,
          overview |-> r.overview, ai_opportunities |-> r.ai_opportunities,
          outreach_drafts |-> r.outreach_drafts, sources |-> r.sources]
    ELSE [company_name |-> r.company_name, industry |-> r.industry,
          overview |-> r.overview, products_services |-> r.products_services,
          ai_opportunities |-> r.ai_opportunities,
          outreach_drafts |-> r.outreach_drafts, sources |-> r.sources,
          research_notes |-> r.research_notes]

\* research_cache[key] = value
CachePut_KeepsOld(cache, key, value) ==
    cache \cup {[key |-> key, value |-> value]}
CachePut(cache, key, value) ==
    {c \in cache : c.key # key} \cup {[key |-> key, value |-> value]}

\* a cache left by an earlier request
EarlierCache ==
    { [key |-> "Acme",
       value |-> CacheValue("research",
                    FactsReport(CompanyFacts("Acme", 1, Url("acme.sg")), NoneV,
                        <<ScrapedContent(Url("acme.sg"), TRUE, "page", NONE)>>,
                        NoneV))] }

\* the answer to a request without website_url
RejectResponse(e) ==
    IF e = "research" THEN Response("page", 200, "Website URL is required", NoneV)
    ELSE IF e = "api_research" THEN Response("json", 400, "Website URL is required", NoneV)
    ELSE Response("exit", 2, "the following arguments are required: website_url", NoneV)

\* the entry point rejects the request instead of calling run_pipeline
Rejects(e, url) ==
    IF e \in WebEntries THEN ~TruthyUrl(url) ELSE url = ArgvMissing

\* the entry point reads the request: it rejects it, or calls run_pipeline
Receive ==
    /\ pc = "request"
    /\ IF Rejects(entry, website_url)
       THEN /\ response' = RejectResponse(entry)
            /\ pc' = "responded"
       ELSE /\ response' = response
            /\ pc' = "scrape_website"
    /\ UNCHANGED <<RunArgs, RunLocals, attempt, scrape_results, log, entry,
                   research_cache, served>>

\* the answer after run_pipeline raised e: the except branch of the web
\* entry points, the traceback of the command line
FaultResponse(e, err) ==
    IF e = "research" THEN Response("page", 200, err, NoneV)
    ELSE IF e = "api_research" THEN Response("json", 500, err, NoneV)
    ELSE Response("exit", 1, err, NoneV)

\* the answer after run_pipeline returned r
ReportResponse(e, r) ==
    IF e = "research" THEN Response("page", 200, NONE, r)
    ELSE IF e = "api_research"
    THEN IF r.company_name # ""
         THEN Response("json", 200, NONE, CacheValue(e, r))
         ELSE Response("json", 500, "No data returned from research", NoneV)
    ELSE Response("exit", 0, NONE, r)

\* if report and report.company_name: research_cache[report.company_name] = ...
CacheAfter_CachesFaults(e, cache, r, err) ==
    IF e \in WebEntries
    THEN CachePut(cache, "Unknown", [company_name |-> "Unknown", error |-> err])
    ELSE cache
CacheAfter(e, cache, r, err) ==
    IF e \in WebEntries /\ err = "" /\ r.company_name # ""
    THEN CachePut(cache, r.company_name, CacheValue(e, r))
    ELSE cache

\* run_pipeline is over: the entry point caches and answers
Respond ==
    /\ pc = "done"
    /\ entry \in WebEntries \cup {"cli"}
    /\ research_cache' = CacheAfter(entry, research_cache, report, error)
    /\ response' = IF error # "" THEN FaultResponse(entry, error)
                   ELSE ReportResponse(entry, report)
    /\ pc' = "responded"
    /\ UNCHANGED <<RunArgs, RunLocals, attempt, scrape_results, log, entry, served>>

\* one request to an entry point
InitWeb ==
    /\ \/ /\ entry \in WebEntries
          /\ website_url \in {NoUrl, Url("acme.sg")}
          /\ instagram_url = NoUrl
          /\ facebook_url = NoUrl
          /\ company_name = NONE
          /\ research_cache \in {{}, EarlierCache}
       \/ /\ entry = "cli"
          /\ website_url \in {ArgvMissing, NoUrl, Url("acme.sg")}
          /\ instagram_url \in InstagramUrls
          /\ facebook_url = Url("facebook.com/acme")
          /\ company_name \in CompanyNames
          /\ research_cache = {}
    /\ model_id = NONE
    /\ pc = "request"
    /\ attempt = 0
    /\ scrape_results = <<>>
    /\ facts = NoneV
    /\ opps = NoneV
    /\ outreach_drafts = NoneV
    /\ report = NoneV
    /\ error = ""
    /\ log = <<>>
    /\ response = NoneV
    /\ served = 0

NextWeb == Receive \/ Next \/ Respond

SpecWeb == InitWeb /\ [][NextWeb]_vars

\* the web application as started: research_cache = {} and a first request,
\* with the Facebook address of the form filled in or left empty and its
\* Instagram address left empty; the entry points pass no company_name
InitRequests ==
    /\ entry \in WebEntries
    /\ website_url \in {NoUrl, Url("acme.sg")}
    /\ \/ instagram_url = NoUrl /\ facebook_url = NoUrl
       \/ instagram_url = NoUrl /\ facebook_url = Url("facebook.com/acme")
    /\ company_name = NONE
    /\ model_id = NONE
    /\ research_cache = {}
    /\ pc = "request"
    /\ attempt = 0
    /\ scrape_results = <<>>
    /\ facts = NoneV
    /\ opps = NoneV
    /\ outreach_drafts = NoneV
    /\ report = NoneV
    /\ error = ""
    /\ log = <<>>
    /\ response = NoneV
    /\ served = 0

\* the application, having answered, receives its next request: the run
\* starts from fresh locals, research_cache is what the earlier requests left
NextRequest ==
    /\ pc = "responded"
    /\ entry \in WebEntries
    /\ served + 1 < MaxRequests
    /\ served' = served + 1
    /\ entry' \in WebEntries
    /\ website_url' \in {NoUrl, Url("acme.sg")}
    /\ pc' = "request"
    /\ attempt' = 0
    /\ scrape_results' = <<>>
    /\ facts' = NoneV
    /\ opps' = NoneV
    /\ outreach_drafts' = NoneV
    /\ report' = NoneV
    /\ error' = ""
    /\ log' = <<>>
    /\ response' = NoneV
    /\ instagram_url' = NoUrl
    /\ facebook_url' = NoUrl
    /\ UNCHANGED <<company_name, model_id, research_cache>>

\* run_pipeline(website_url=..., instagram_url=None, facebook_url=...): with
\* no company_name the searches of stage_scrape are not made
WebRun ==
    \/ ScrapeWebsite
    \/ ScrapeFacebook
    \/ Gate1
    \/ Extract
    \/ Gate2
    \/ EnrichFacebook
    \/ EnrichReviews
    \/ Analyze
    \/ Gate3
    \/ Outreach
    \/ Assemble

NextRequests == Receive \/ WebRun \/ Respond \/ NextRequest

SpecRequests == InitRequests /\ [][NextRequests]_vars

-----------------------------------------------------------------------------
(* pipeline.py: assemble_report applied to arbitrary arguments *)

MaxResults == 3

\* results a list handed to assemble_report can hold
AssembleResults ==
    { ScrapedContent(Url("acme.sg"), TRUE, "page", NONE),
      ScrapedContent(Url("instagram.com/acme"), FALSE, "limited", "limited_data"),
      ScrapedContent(Url("facebook.com/acme"), FALSE, "", "facebook_blocks"),
      search_google_reviews("Acme", "results") }

\* the lists scrape_results of at most MaxResults results
ResultLists == UNION { [1..n -> AssembleResults] : n \in 0..MaxResults }

\* the arguments facts, opps and outreach_drafts
FactsArgs == {NoneV, StrV} \cup { CompanyFacts("Acme", n, Url("acme.sg")) : n \in 0..MaxProducts }
OppsArgs == {NoneV, StrV} \cup { Opportunities(n) : n \in 0..MaxItems }
DraftsArgs == {NoneV, StrV, OutreachDrafts}

\* a call assemble_report(facts, opps, scrape_results, outreach_drafts)
InitAssemble ==
    /\ website_url = Url("acme.sg")
    /\ instagram_url = NoUrl
    /\ facebook_url = NoUrl
    /\ company_name = NONE
    /\ model_id = NONE
    /\ pc = "assemble"
    /\ attempt = 0
    /\ scrape_results \in ResultLists
    /\ facts \in FactsArgs
    /\ opps \in OppsArgs
    /\ outreach_drafts \in DraftsArgs
    /\ report = NoneV
    /\ error = ""
    /\ log = <<>>
    /\ entry = "run_pipeline"
    /\ research_cache = {}
    /\ response = NoneV
    /\ served = 0

NextAssemble == Assemble

SpecAssemble == InitAssemble /\ [][NextAssemble]_vars

TypeOK ==
    /\ pc \in {"scrape_website", "scrape_instagram", "scrape_facebook",
               "search_facebook", "search_reviews", "gate1", "extract", "gate2",
               "enrich_facebook", "enrich_reviews", "analyze", "gate3",
               "outreach", "assemble", "done", "collect", "collected",
               "request", "responded"}
    /\ attempt \in 0..MAX_RETRIES
    /\ error \in {"", "AttributeError", "ValidationError", "AgentError"}

-----------------------------------------------------------------------------
(* Properties of run_pipeline *)

IsReport(v) == v.type = "CompanyResearchReport"

NoSuccess(results) == \A i \in 1..Len(results) : ~results[i].success

NumSucceeded(results) == Cardinality({i \in 1..Len(results) : results[i].success})

\* the report names every failed result of the list, in order
NotesNameEveryFailure(r, results) ==
    LET failed == SelectSeq(results, LAMBDA x : ~x.success) IN
    /\ Len(r.research_notes) = Len(failed)
    /\ \A i \in 1..Len(failed) :
         /\ r.research_notes[i].url = failed[i].url
         /\ r.research_notes[i].error = failed[i].error

\* the placeholder identity of a report
IsPlaceholder(r) ==
    /\ r.company_name = "Unknown"
    /\ r.products_services = <<>>
    /\ r.ai_opportunities = <<>>
    /\ r.outreach_drafts = NoneV

\* the searches made so far
NumSearches(l) == Count(l, "search_facebook") + Count(l, "search_reviews")

\* C1: every run in which no collaborator call raises ends by returning a
\* non-null Report, whatever the collection results and whatever the
\* extractor, the analyzer and the composer answered (a value, nothing or a
\* value of the wrong shape); when every target failed it is the placeholder
\* with tier Low and non-empty notes.
C1_EveryRunYieldsReport ==
    (pc = "done" /\ error # "AgentError") =>
        /\ IsReport(report)
        /\ NoSuccess(scrape_results) =>
              /\ IsPlaceholder(report)
              /\ report.research_quality.quality_score = "Low"
              /\ report.research_notes # <<>>

\* C2: a terminated run has exactly one outcome, a Report or an error, never
\* both and never neither; a run that has not terminated has neither.
C2_ExactlyOneOutcome ==
    /\ pc = "done" => (IsReport(report) /\ error = "") \/ (report = NoneV /\ error # "")
    /\ pc # "done" => report = NoneV /\ error = ""

C2_Witness == pc = "done" /\ report = NoneV /\ error = "AttributeError"

\* the tier the claim gives to n successful sources
TierOf(n) == IF n >= 3 THEN "High" ELSE IF n = 2 THEN "Medium" ELSE "Low"

\* C3: in every Report the quality tier is TierOf(number of successful
\* FetchResults of the list), with Facts present or absent.
C3_TierFromSuccessCount ==
    IsReport(report) =>
        report.research_quality.quality_score = TierOf(NumSucceeded(scrape_results))

\* C4: a Gate 1 step taken when no FetchResult succeeded ends the run with
\* the placeholder Report (tier Low, one note per failed FetchResult) and
\* neither the extractor, the enrichment searches, the analyzer nor the
\* composer has been or is invoked.
C4_Gate1SkipsToAssembly ==
    [][(pc = "gate1" /\ NoSuccess(scrape_results)) =>
          /\ pc' = "done"
          /\ error' = ""
          /\ IsReport(report')
          /\ IsPlaceholder(report')
          /\ report'.research_quality.quality_score = "Low"
          /\ report'.data_quality = "Low"
          /\ Len(report'.research_notes) = Len(scrape_results)
          /\ NotesNameEveryFailure(report', scrape_results)
          /\ Count(log', "stage_extract") = 0
          /\ Count(log', "stage_analyze") = 0
          /\ Count(log', "stage_outreach") = 0
          /\ Count(log', "agent_run") = 0
          /\ NumSearches(log') = NumSearches(log)
          /\ scrape_results' = scrape_results]_vars

C4_Witness ==
    /\ pc = "done"
    /\ Len(scrape_results) >= 3
    /\ NoSuccess(scrape_results)
    /\ IsReport(report)
    /\ report.company_name = "Unknown"
    /\ Len(report.research_notes) = Len(scrape_results)

\* the extractor's answer fails Gate 2: no Facts, an empty name or no offering
FailsGate2(f) ==
    \/ f = NoneV
    \/ /\ f.type = "CompanyFacts"
       /\ (f.company_name = "" \/ Len(f.products) = 0)

\* C5: a Gate 2 step taken with no Facts, with an empty name or with zero
\* offerings ends the run with a Report, without error; the enrichment
\* searches, the analyzer and the composer are never invoked; the Report has
\* no recommendations and no drafts, and carries the Facts' own fields when
\* Facts are present, the placeholder only when they are absent.
C5_Gate2DegradesToAssembly ==
    [][(pc = "gate2" /\ FailsGate2(facts)) =>
          /\ pc' = "done"
          /\ error' = ""
          /\ IsReport(report')
          /\ report'.ai_opportunities = <<>>
          /\ report'.outreach_drafts = NoneV
          /\ IF facts = NoneV
             THEN IsPlaceholder(report')
             ELSE /\ report'.company_name = facts.company_name
                  /\ report'.industry = facts.industry
                  /\ report'.overview = facts.what_they_do
                  /\ report'.products_services = facts.products
          /\ Count(log', "stage_analyze") = 0
          /\ Count(log', "stage_outreach") = 0
          /\ NumSearches(log') = NumSearches(log)
          /\ scrape_results' = scrape_results]_vars

C5_Witness ==
    /\ pc = "done"
    /\ facts.type = "CompanyFacts"
    /\ facts.company_name = "Acme"
    /\ Len(facts.products) = 0
    /\ IsReport(report)
    /\ report.company_name = "Acme"
    /\ report.ai_opportunities = <<>>
    /\ Count(log, "stage_analyze") = 0

\* the analyzer's answer fails Gate 3: nothing, or a set with zero entries
FailsGate3(o) ==
    \/ o = NoneV
    \/ /\ o.type = "Opportunities"
       /\ Len(o.items) = 0

\* C6: a Gate 3 step taken with no RecommendationSet or with an empty one
\* sets it to absent and goes on; with it absent the composer step invokes
\* nothing and leaves the drafts absent; the assembly step then returns a
\* Report with the Facts' identity, no recommendation and no drafts.
C6_Gate3NeverShortCircuits ==
    [][/\ (pc = "gate3" /\ FailsGate3(opps)) =>
             /\ pc' = "outreach"
             /\ opps' = NoneV
             /\ error' = ""
       /\ (pc = "outreach" /\ opps = NoneV) =>
             /\ pc' = "assemble"
             /\ outreach_drafts' = NoneV
             /\ error' = ""
             /\ log' = log
       /\ (pc = "assemble" /\ opps = NoneV) =>
             /\ pc' = "done"
             /\ error' = ""
             /\ IsReport(report')
             /\ report'.company_name = facts.company_name
             /\ report'.products_services = facts.products
             /\ report'.ai_opportunities = <<>>
             /\ report'.outreach_drafts = NoneV
             /\ Count(log', "stage_outreach") = 0]_vars

C6_Witness ==
    /\ pc = "done"
    /\ Count(log, "stage_analyze") = 1
    /\ opps = NoneV
    /\ IsReport(report)
    /\ report.company_name = "Acme"
    /\ report.ai_opportunities = <<>>
    /\ report.outreach_drafts = NoneV

\* Facts that pass Gate 2 and a RecommendationSet with at least one entry
PassedGate2(f) ==
    f.type = "CompanyFacts" /\ f.company_name # "" /\ Len(f.products) >= 1
NonEmptySet(o) == o.type = "Opportunities" /\ Len(o.items) >= 1

\* C7: stage_outreach is invoked by a step exactly when the step is the
\* composer step of a run whose Facts passed Gate 2 and whose analyzer
\* returned a set with at least one entry (Gate 3 hands such a set on
\* unchanged); it is invoked at most once in a run.
C7_ComposerIffFactsAndRecommendations ==
    /\ [](Count(log, "stage_outreach") <= 1)
    /\ [][/\ (Count(log', "stage_outreach") # Count(log, "stage_outreach")) <=>
                (pc = "outreach" /\ PassedGate2(facts) /\ NonEmptySet(opps))
          /\ (pc = "gate3" /\ PassedGate2(facts) /\ NonEmptySet(opps)) =>
                (pc' = "outreach" /\ opps' = opps)
          /\ (pc = "gate3" /\ ~NonEmptySet(opps)) => ~NonEmptySet(opps')
          /\ pc \in {"analyze", "gate3", "outreach"} => PassedGate2(facts)]_vars

C7_Witness ==
    /\ Count(log, "stage_outreach") = 1
    /\ Count(log, "stage_analyze") = 1
    /\ NonEmptySet(opps)

\* C8: a returned Report carries drafts only if it was built from present
\* Facts and holds at least one recommendation; a Report with the
\* placeholder identity or with no recommendation carries no drafts.
C8_DraftsOnlyWithFactsAndRecommendations ==
    IsReport(report) =>
        /\ report.outreach_drafts # NoneV =>
              (facts # NoneV /\ Len(report.ai_opportunities) >= 1)
        /\ (facts = NoneV \/ report.company_name = "Unknown"
              \/ report.ai_opportunities = <<>>) =>
              report.outreach_drafts = NoneV

C8_Witness ==
    /\ IsReport(report)
    /\ facts # NoneV
    /\ Count(log, "stage_analyze") = 1
    /\ report.ai_opportunities = <<>>
    /\ report.outreach_drafts = NoneV

-----------------------------------------------------------------------------
(* Properties of the collector *)

\* fetch attempts made on the address u, and delays slept for it
Fetches(u) == CountArg(log, "fetch", u)
Sleeps(u) == CountArg(log, "sleep", u)

DirectUrls == WebsiteUrls \cup InstagramUrls \cup FacebookUrls

\* the error of a result whose last attempt was a failure text or an exception
TransientErrors == {"failed_to_fetch", "error_text", "profile_error_word", "str(e)"}

HasResultFor(results, u) == \E i \in 1..Len(results) : results[i].url = u

\* C9: no address is fetched more than 2 times; inside a retry loop every
\* earlier attempt failed and was followed by a delay; a direct-url result
\* that failed on a transient error was fetched exactly 2 times with one
\* delay between; a successful result was returned by the last fetch of its
\* address, every fetch before it having failed and been followed by a delay.
C9_TransientRetryBound ==
    LET nWeb == Fetches(website_url)
        nIg == Fetches(instagram_url)
        Ok(r, n) ==
            /\ n <= 2
            /\ (~r.success /\ r.error \in TransientErrors) =>
                  (n = 2 /\ Sleeps(r.url) = 1)
            /\ r.success => (n \in 1..2 /\ Sleeps(r.url) = n - 1)
    IN  /\ nWeb <= 2 /\ nIg <= 2 /\ Fetches(facebook_url) <= 2
        /\ pc = "scrape_website" => (nWeb = attempt /\ Sleeps(website_url) = attempt)
        /\ pc = "scrape_instagram" => (nIg = attempt /\ Sleeps(instagram_url) = attempt)
        /\ Len(scrape_results) >= 1 => Ok(scrape_results[1], nWeb)
        /\ (Len(scrape_results) >= 2 /\ scrape_results[2].url = instagram_url) =>
              Ok(scrape_results[2], nIg)

C9_Witness ==
    /\ Len(scrape_results) >= 2
    /\ ~scrape_results[1].success
    /\ scrape_results[1].url = website_url
    /\ Fetches(website_url) = 2
    /\ scrape_results[2].url = instagram_url
    /\ ~scrape_results[2].success
    /\ scrape_results[2].error \in TransientErrors
    /\ Fetches(instagram_url) = 2

\* an address of the platform scrape_social never fetches
IsFacebookAddress(u) == UrlHas(u, "facebook.com")

\* C10: a Facebook address is never fetched and never waited for; the step
\* that hands it to scrape_social appends a failed result for it at once,
\* without any call of the fetch engine.
C10_BlockedTargetNeverFetched ==
    /\ [](\A u \in FacebookUrls :
            IsFacebookAddress(u) => (Fetches(u) = 0 /\ Sleeps(u) = 0))
    /\ [][(pc = "scrape_facebook" /\ IsFacebookAddress(facebook_url)) =>
            /\ Len(scrape_results') = Len(scrape_results) + 1
            /\ SubSeq(scrape_results', 1, Len(scrape_results)) = scrape_results
            /\ scrape_results'[Len(scrape_results')].url = facebook_url
            /\ ~scrape_results'[Len(scrape_results')].success
            /\ scrape_results'[Len(scrape_results')].error \notin {NONE, ""}
            /\ log' = log
            /\ pc' # "scrape_facebook"]_vars

C10_Witness ==
    /\ pc = "done"
    /\ IsFacebookAddress(facebook_url)
    /\ HasResultFor(scrape_results, facebook_url)
    /\ Fetches(facebook_url) = 0
    /\ Fetches(website_url) >= 1

-----------------------------------------------------------------------------
(* Properties of the fallback searches and of the enrichment step *)

\* the run has a categorically blocked target: a Facebook address was given
HasBlockedTarget == IsFacebookAddress(facebook_url)

\* a subject name is available: given by the caller, or recovered by an
\* extraction that passed Gate 2
NameAvailable == TruthyStr(company_name) \/ PassedGate2(facts)

\* C11: the presence search is never issued twice in a run, and a terminated
\* run with a blocked target and an available name has issued it exactly once,
\* the initial collection and the enrichment step counted together.
C11_ExactlyOneFallbackSearch ==
    /\ Count(log, "search_facebook") <= 1
    /\ (pc = "done" /\ HasBlockedTarget /\ NameAvailable) =>
          Count(log, "search_facebook") = 1

\* content that is too short to be useful or shows an authentication wall
AmbiguousContent == {"minimal", "limited"}

\* C12: a result whose fetched content is the minimal-content notice or the
\* limited-data notice has success=false, so it is not a succeeded source and
\* not the extractor's input.
C12_AmbiguousContentIsFailure ==
    \A i \in 1..Len(scrape_results) :
        scrape_results[i].content \in AmbiguousContent =>
            /\ ~scrape_results[i].success
            /\ CountArg(log, "agent_run", scrape_results[i].url) = 0

\* the scenario of C13: the primary site succeeded, a Facebook address was
\* given and blocked, the caller gave no Instagram address and no name, and
\* the extractor recovered Facts that pass Gate 2
EnrichmentScenario ==
    /\ instagram_url = NoUrl
    /\ company_name = NONE
    /\ HasBlockedTarget
    /\ Len(scrape_results) >= 2
    /\ scrape_results[1].url = website_url
    /\ scrape_results[1].success
    /\ scrape_results[2].url = facebook_url
    /\ ~scrape_results[2].success
    /\ PassedGate2(facts)

PresenceSearchUrl(name) == <<"search:facebook:", name>>
ReviewSearchUrl(name) == <<"search:reviews:", name>>

PcRank(p) ==
    CASE p = "scrape_website" -> 1
      [] p = "scrape_instagram" -> 2
      [] p = "scrape_facebook" -> 3
      [] p = "search_facebook" -> 4
      [] p = "search_reviews" -> 5
      [] p = "gate1" -> 6
      [] p = "extract" -> 7
      [] p = "gate2" -> 8
      [] p = "enrich_facebook" -> 9
      [] p = "enrich_reviews" -> 10
      [] p = "analyze" -> 11
      [] p = "gate3" -> 12
      [] p = "outreach" -> 13
      [] p = "assemble" -> 14
      [] p = "done" -> 15

\* fetches and searches made so far
CollectionCalls(l) ==
    Count(l, "fetch") + Count(l, "search_facebook") + Count(l, "search_reviews")

\* C14: the enrichment step is entered only from a Gate 2 that passed and is
\* never entered again (no step goes back to an earlier position); it is
\* over before the analyzer is invoked; each of its two steps issues at most
\* one search of its own category and goes on to the next position whatever
\* the search answered; from the analyzer on, no fetch and no search is made.
C14_EnrichmentDoesNotLoop ==
    [][/\ PcRank(pc') >= PcRank(pc)
       /\ PcRank(pc) >= 6 => PcRank(pc') > PcRank(pc)
       /\ pc' = "enrich_facebook" => (pc = "gate2" /\ PassedGate2(facts))
       /\ pc = "enrich_facebook" =>
             /\ pc' = "enrich_reviews"
             /\ Count(log', "stage_analyze") = 0
             /\ Count(log', "search_facebook") - Count(log, "search_facebook") \in {0, 1}
             /\ Count(log', "search_reviews") = Count(log, "search_reviews")
             /\ Count(log', "fetch") = Count(log, "fetch")
       /\ pc = "enrich_reviews" =>
             /\ pc' = "analyze"
             /\ Count(log', "stage_analyze") = 0
             /\ Count(log', "search_reviews") - Count(log, "search_reviews") \in {0, 1}
             /\ Count(log', "search_facebook") = Count(log, "search_facebook")
             /\ Count(log', "fetch") = Count(log, "fetch")
       /\ PcRank(pc) >= 11 =>
             /\ CollectionCalls(log') = CollectionCalls(log)
             /\ scrape_results' = scrape_results]_vars

C14_Witness ==
    /\ pc = "done"
    /\ company_name = NONE
    /\ Count(log, "search_facebook") = 1
    /\ Count(log, "search_reviews") = 1
    /\ Count(log, "stage_analyze") = 1
    /\ ~scrape_results[Len(scrape_results)].success
    /\ ~scrape_results[Len(scrape_results) - 1].success


TargetRank(url) ==
    IF url = website_url THEN 1
    ELSE IF url = instagram_url THEN 2
    ELSE IF url = facebook_url THEN 3
    ELSE IF url[1] = "search:facebook:" THEN 4
    ELSE IF url[1] = "search:reviews:" THEN 5
    ELSE 0

\* the lowest index of a successful result
FirstSuccess(results) ==
    CHOOSE i \in 1..Len(results) :
        /\ results[i].success
        /\ \A j \in 1..(i - 1) : ~results[j].success

\* the list built by the initial collection is in target-priority order
InitialOrderKept ==
    PcRank(pc) <= 8 =>
        /\ \A i \in 1..Len(scrape_results) : TargetRank(scrape_results[i].url) >= 1
        /\ \A i, j \in 1..Len(scrape_results) :
               i < j => TargetRank(scrape_results[i].url) < TargetRank(scrape_results[j].url)
        /\ PcRank(pc) >= 2 => scrape_results[1].url = website_url

\* C16: the list built by the initial collection keeps the order primary
\* site, Instagram, Facebook, presence search, review search, and the
\* extractor stage, entered after Gate 1 passed, invokes the extractor once,
\* on the lowest-index result with success=true (the primary site's whenever
\* the primary site succeeded).
C16_ExtractorTakesFirstSuccess ==
    /\ []InitialOrderKept
    /\ [][pc = "extract" =>
            /\ ~NoSuccess(scrape_results)
            /\ LET first == scrape_results[FirstSuccess(scrape_results)] IN
               /\ first.content # ""
               /\ log' = log \o <<Event("stage_extract", <<ExtractModel(model_id)>>),
                                  Event("agent_run", first.url)>>
               /\ scrape_results[1].success => first.url = website_url]_vars

C16_Witness ==
    /\ pc = "gate2"
    /\ Len(scrape_results) = 5
    /\ ~scrape_results[1].success
    /\ scrape_results[2].content = "limited"
    /\ ~scrape_results[4].success
    /\ scrape_results[5].success
    /\ CountArg(log, "agent_run", scrape_results[5].url) = 1


\* the addresses of the successful results, in list order
RECURSIVE SuccessUrls(_)
SuccessUrls(results) ==
    IF results = <<>> THEN <<>>
    ELSE (IF Head(results).success THEN <<Head(results).url>> ELSE <<>>)
         \o SuccessUrls(Tail(results))

\* the targets collected in a run: the primary site, each secondary profile
\* given, and every search made, in the initial collection or the enrichment
TargetsCollected ==
    1 + (IF TruthyUrl(instagram_url) THEN 1 ELSE 0)
      + (IF TruthyUrl(facebook_url) THEN 1 ELSE 0)
      + NumSearches(log)

\* C20: in every report a run returns, the quality metrics count the full
\* result list, enrichment results included: sources found is the number
\* of targets collected, succeeded plus failed is sources found, and the
\* source list is the addresses of the successful results in list order.
C20_MetricsCountFullList ==
    (pc = "done" /\ IsReport(report)) =>
        LET q == report.research_quality IN
        /\ q.sources_found = Len(scrape_results)
        /\ q.sources_found = TargetsCollected
        /\ q.urls_successfully_scraped = NumSucceeded(scrape_results)
        /\ q.urls_successfully_scraped + q.urls_failed = q.sources_found
        /\ report.sources = SuccessUrls(scrape_results)

C20_Witness ==
    /\ pc = "done"
    /\ IsReport(report)
    /\ company_name = NONE
    /\ Count(log, "search_facebook") = 1
    /\ Count(log, "search_reviews") = 1
    /\ report.research_quality.sources_found = 5
    /\ report.research_quality.urls_failed = 3
    /\ Len(report.sources) = 2
    /\ scrape_results[5].success


-----------------------------------------------------------------------------
(* Properties of assemble_report *)

\* the call has returned or raised
Assembled == pc = "done"

AnyFailed(results) == \E i \in 1..Len(results) : ~results[i].success

\* the notes hold the text that says extraction failed
NotesExplainExtraction(r) ==
    \E i \in 1..Len(r.research_notes) : r.research_notes[i] = ExtractionFailedNote

\* one line per failed result, in list order, and none for a success
RECURSIVE FailureLines(_)
FailureLines(results) ==
    IF results = <<>> THEN <<>>
    ELSE (IF Head(results).success THEN <<>>
          ELSE <<[kind |-> "failed_to_scrape", url |-> Head(results).url,
                  error |-> Head(results).error]>>)
         \o FailureLines(Tail(results))

C18_NotesAreFailureLines ==
    (Assembled /\ IsReport(report)) =>
        NotesNameEveryFailure(report, scrape_results)

\* C18: when a result failed, the notes of the report are exactly one line
\* per failed result of the full list, in list order, each with that
\* result's address and error, and no line for a success; when no result
\* failed, the notes are absent if Facts are present and are the text that
\* extraction failed if Facts are absent.
C18_NotesLinePerFailure ==
    (Assembled /\ IsReport(report)) =>
        /\ AnyFailed(scrape_results) =>
              /\ report.research_notes = FailureLines(scrape_results)
              /\ NotesNameEveryFailure(report, scrape_results)
        /\ (~AnyFailed(scrape_results) /\ facts # NoneV) =>
              report.research_notes = <<>>
        /\ (~AnyFailed(scrape_results) /\ facts = NoneV) =>
              report.research_notes = <<ExtractionFailedNote>>

C18_Witness ==
    /\ Assembled
    /\ IsReport(report)
    /\ facts # NoneV
    /\ Len(scrape_results) = 3
    /\ scrape_results[1].success
    /\ ~scrape_results[2].success
    /\ ~scrape_results[3].success
    /\ scrape_results[2].url # scrape_results[3].url
    /\ Len(report.research_notes) = 2
    /\ report.research_notes[2].url = scrape_results[3].url

-----------------------------------------------------------------------------
(* Properties of the language-model stages *)

LlmStages == {"stage_extract", "stage_analyze", "stage_outreach"}

\* the model a stage uses when the caller of the stage gives none
StageDefault(op) == IF op = "stage_outreach" THEN NONE ELSE DefaultModel

\* C30: every language-model stage of a run is invoked with the model
\* selector given to run_pipeline, and with its own default when none was
\* given.
C30_StagesUseSelectedModel ==
    \A i \in 1..Len(log) :
        log[i].op \in LlmStages =>
            log[i].arg = <<IF TruthyStr(model_id) THEN model_id
                           ELSE StageDefault(log[i].op)>>


-----------------------------------------------------------------------------
(* Properties of the collector's content *)

\* C21: every result the collector returns has content of at most
\* MAX_CONTENT_LENGTH characters, whatever the length of the text fetched.
C21_ContentWithinMaximum ==
    \A i \in 1..Len(scrape_results) :
        /\ scrape_results[i].content.len <= MAX_CONTENT_LENGTH
        /\ scrape_results[i].content_length <= MAX_CONTENT_LENGTH


-----------------------------------------------------------------------------
(* Properties of the run: faults, order, termination *)

\* C22: a run in which the extractor or the analyzer returned nothing or a
\* value of the wrong shape, and in which no collaborator call raised, ends
\* by returning a Report, without error.
C22_WrongShapeIsSoftFailure ==
    (/\ pc = "done"
     /\ error # "AgentError"
     /\ (facts \in {NoneV, StrV} \/ opps \in {NoneV, StrV})) =>
        /\ IsReport(report)
        /\ error = ""


-----------------------------------------------------------------------------
(* Properties of the entry points *)

\* the caches a request can find
InitialCaches == {{}, EarlierCache}

C29_MissingUrlRejected ==
    ((website_url = ArgvMissing \/ ~TruthyUrl(website_url)) /\ pc # "request") =>
        /\ pc = "responded"
        /\ log = <<>>
        /\ response.error # NONE
        /\ entry = "cli" => response.status # 0
        /\ research_cache \in InitialCaches


\* what the engines answer when a target fails
FailureKinds ==
    {"failed_to_fetch", "error_text", "raise", "empty", "import_error"}

\* C24: every failure of a collection target (failure text, exception of the
\* fetch engine or of the search engine, missing library, empty search
\* result) comes back from the collector as a result with success=false and
\* a non-empty error.
C24_FailureBecomesFailedResult ==
    pc = "collected" =>
        /\ Len(scrape_results) = 1
        /\ log[1].arg[1] \in FailureKinds => ~scrape_results[1].success
        /\ ~scrape_results[1].success => scrape_results[1].error \notin {NONE, ""}


SearchOps == {"search_facebook", "search_reviews"}

\* the extractor stage was entered before call i of the log l
ExtractBefore(l, i) == \E j \in 1..(i - 1) : l[j].op = "stage_extract"

\* the stage call i of the log l belongs to: 1 Collect, 2 Extract,
\* 3 Enrichment Collect, 4 Analyze, 5 Composer, 6 Assemble
RECURSIVE StageRank(_, _)
StageRank(l, i) ==
    LET op == l[i].op IN
    IF op \in {"fetch", "sleep"} THEN 1
    ELSE IF op \in SearchOps THEN (IF ExtractBefore(l, i) THEN 3 ELSE 1)
    ELSE IF op = "stage_extract" THEN 2
    ELSE IF op = "stage_analyze" THEN 4
    ELSE IF op = "stage_outreach" THEN 5
    ELSE IF op = "assemble_report" THEN 6
    ELSE IF i = 1 THEN 0
    ELSE StageRank(l, i - 1)

\* the enrichment searches of the log l
EnrichmentSearches(l, op) ==
    Cardinality({i \in 1..Len(l) : l[i].op = op /\ ExtractBefore(l, i)})

\* C25: the stages of a run are invoked in the order Collect, Extract,
\* Enrichment Collect, Analyze, Composer, Assemble, each at most once and
\* none after Assemble; a stage is invoked only after every gate before it
\* passed; a run that returns a Report invoked Assemble exactly once, as its
\* last call.
C25_StageOrder ==
    /\ \A i \in 1..(Len(log) - 1) : StageRank(log, i) <= StageRank(log, i + 1)
    /\ \A i \in 1..Len(log) : StageRank(log, i) >= 1
    /\ Count(log, "stage_extract") <= 1
    /\ Count(log, "stage_analyze") <= 1
    /\ Count(log, "stage_outreach") <= 1
    /\ Count(log, "assemble_report") <= 1
    /\ \A op \in SearchOps : EnrichmentSearches(log, op) <= 1
    /\ Count(log, "stage_extract") = 1 => ~NoSuccess(scrape_results)
    /\ (\E op \in SearchOps : EnrichmentSearches(log, op) = 1) => PassedGate2(facts)
    /\ Count(log, "stage_analyze") = 1 => PassedGate2(facts)
    /\ Count(log, "stage_outreach") = 1 => (PassedGate2(facts) /\ NonEmptySet(opps))
    /\ Count(log, "assemble_report") = 1 =>
          (pc = "done" /\ log[Len(log)].op = "assemble_report")
    /\ (pc = "done" /\ IsReport(report)) =>
          (Count(log, "assemble_report") = 1 /\ log[Len(log)].op = "assemble_report")

C25_Witness ==
    /\ pc = "done"
    /\ IsReport(report)
    /\ Count(log, "fetch") >= 2
    /\ Count(log, "stage_extract") = 1
    /\ EnrichmentSearches(log, "search_facebook") = 1
    /\ EnrichmentSearches(log, "search_reviews") = 1
    /\ Count(log, "stage_analyze") = 1
    /\ Count(log, "assemble_report") = 1


\* the analyzer is being invoked or has been invoked
AnalyzerStarted == pc = "analyze" \/ Count(log, "stage_analyze") >= 1

\* C26: from the step that invokes the analyzer to the end of the run,
\* nothing is fetched, nothing is searched and the result list does not
\* change, so the Report is assembled from the list the analyzer's
\* invocation found.
C26_AnalyzerNeverCollects ==
    /\ [][AnalyzerStarted =>
             /\ Count(log', "fetch") = Count(log, "fetch")
             /\ NumSearches(log') = NumSearches(log)
             /\ scrape_results' = scrape_results
             /\ IsReport(report') =>
                   /\ report'.research_quality.sources_found = Len(scrape_results)
                   /\ report'.sources = Sources(scrape_results)]_vars
    /\ [](Count(log, "stage_analyze") >= 1 =>
             \A i \in 1..Len(log) :
                 log[i].op \in SearchOps \cup {"fetch"} =>
                     \E j \in (i + 1)..Len(log) : log[j].op = "stage_analyze")

C26_Witness ==
    /\ pc = "done"
    /\ IsReport(report)
    /\ Count(log, "stage_analyze") = 1
    /\ NumSearches(log) = 3
    /\ report.research_quality.sources_found = 5
    /\ opps = NoneV


\* C27: when every collaborator call returns, every run reaches its
\* terminal state, a Report returned or an error raised; on the way no
\* address is fetched more than MAX_RETRIES times, at most two searches of
\* each of the two kinds and three searches in all are made, and no stage
\* is invoked twice.
C27_RunTerminates ==
    /\ <>(pc = "done")
    /\ [](pc = "done" => (IsReport(report) \/ error # ""))
    /\ [](/\ Fetches(website_url) <= MAX_RETRIES
          /\ Fetches(instagram_url) <= MAX_RETRIES
          /\ Fetches(facebook_url) <= MAX_RETRIES
          /\ Count(log, "fetch") <= 2 * MAX_RETRIES
          /\ Count(log, "search_facebook") <= 2
          /\ Count(log, "search_reviews") <= 2
          /\ NumSearches(log) <= 3
          /\ \A op \in LlmStages \cup {"assemble_report"} : Count(log, op) <= 1)

C27_Witness ==
    /\ pc = "done"
    /\ Fetches(website_url) = MAX_RETRIES
    /\ Fetches(instagram_url) = MAX_RETRIES
    /\ NumSearches(log) = 3
    /\ Count(log, "stage_analyze") = 1
    /\ Count(log, "stage_outreach") = 1
    /\ error # ""


\* what stage_outreach was handed, when it was invoked
ComposerInvoked == Count(log, "stage_outreach") >= 1

\* C31: a Report that run_pipeline returned lists at most 5 offerings and at
\* most 4 recommendations, and a RecommendationSet handed to the composer
\* holds between 1 and 4 recommendations.
C31_SizeBounds ==
    /\ IsReport(report) =>
          /\ Len(report.products_services) <= MaxLenProducts
          /\ Len(report.ai_opportunities) <= MaxLenItems
    /\ ComposerInvoked =>
          /\ HasAttr(opps, "items")
          /\ Len(opps.items) >= 1
          /\ Len(opps.items) <= MaxLenItems

C31_Witness ==
    /\ IsReport(report)
    /\ Len(report.products_services) = MaxProducts
    /\ ~ComposerInvoked


------------------------------------------------------------------------------
(* Properties of the composer *)

\* C32: when stage_outreach is invoked with a RecommendationSet that carries
\* no personalization hooks and no recommended hook, it raises no
\* AttributeError and runs its language model, and the run, unless that
\* model's call raises, ends with a Report.
C32_HooksAreOptional ==
    (ComposerInvoked /\ ~ReadsHooks(opps)) =>
        /\ error # "AttributeError"
        /\ Count(log, "agent_run") = Count(log, "stage_extract")
              + Count(log, "stage_analyze") + Count(log, "stage_outreach")
        /\ (pc = "done" /\ error # "AgentError") => IsReport(report)


\* C33: a terminated run in which the composer was invoked and gave no
\* drafts, no collaborator call having raised, returned a Report with the
\* identity of the Facts, every recommendation of the set, no drafts, and
\* the tier its successful results alone decide.
C33_ComposerFailureIsSoft ==
    (/\ pc = "done"
     /\ ComposerInvoked
     /\ outreach_drafts = NoneV
     /\ error # "AgentError") =>
        /\ IsReport(report)
        /\ report.company_name = facts.company_name
        /\ report.products_services = facts.products
        /\ Len(report.ai_opportunities) = Len(opps.items)
        /\ report.outreach_drafts = NoneV
        /\ report.data_quality = QualityScore(NumSucceeded(scrape_results))


------------------------------------------------------------------------------
(* Properties of the searches and of the result list *)

\* the enrichment step of the run is over
EnrichmentOver ==
    pc \in {"analyze", "gate3", "outreach", "assemble"} \/ Count(log, "stage_analyze") >= 1

\* C34: the review search is issued once when a subject name is available
\* and never otherwise: by the initial collection when the caller gave a
\* name, by the enrichment step when only an extraction that passed Gate 2
\* supplied one, and never by both.
C34_ReviewSearchExactlyOnce ==
    LET n == Count(log, "search_reviews")
        enrich == EnrichmentSearches(log, "search_reviews")
    IN  /\ n <= 1
        /\ TruthyStr(company_name) =>
              /\ enrich = 0
              /\ PcRank(pc) >= 6 => n = 1
        /\ ~TruthyStr(company_name) =>
              /\ n = enrich
              /\ EnrichmentOver => n = 1
              /\ ~EnrichmentOver => n = 0


\* C35: every step of a run leaves the results already in the list where
\* they are and as they are, adding at most one result at the end; a result
\* the enrichment step adds is a search scoped to the extracted name; from
\* the analyzer on the list does not change; the primary site's result stays
\* first.
C35_ResultListAppendOnly ==
    /\ [][/\ Len(scrape_results') \in {Len(scrape_results), Len(scrape_results) + 1}
          /\ SubSeq(scrape_results', 1, Len(scrape_results)) = scrape_results
          /\ (pc \in {"enrich_facebook", "enrich_reviews"}
                /\ scrape_results' # scrape_results) =>
                scrape_results'[Len(scrape_results')].url \in
                    {PresenceSearchUrl(facts.company_name),
                     ReviewSearchUrl(facts.company_name)}
          /\ PcRank(pc) >= 11 => scrape_results' = scrape_results]_vars
    /\ [](Len(scrape_results) >= 1 => scrape_results[1].url = website_url)

C35_Witness ==
    /\ pc = "done"
    /\ IsReport(report)
    /\ EnrichmentSearches(log, "search_facebook") = 1
    /\ EnrichmentSearches(log, "search_reviews") = 1
    /\ Len(scrape_results) = 4
    /\ scrape_results[2].url = instagram_url
    /\ ~scrape_results[1].success


\* C36: a result the collector returned with success=true has a non-empty
\* content, no error, and a content_length that is the length of that
\* content; a result returned with success=false has a non-empty error.
C36_ResultWellFormed ==
    \A i \in 1..Len(scrape_results) :
        LET r == scrape_results[i] IN
        /\ r.success =>
              /\ r.content.len > 0
              /\ r.error = NONE
              /\ r.content_length = r.content.len
        /\ ~r.success => (r.error # NONE /\ r.error # "")


------------------------------------------------------------------------------
(* Properties of the report's quality fields *)

\* C37: in every report assemble_report built, data_quality is the tier of
\* the quality metrics, and the evidence count is the number of
\* recommendations the report lists, 0 in the placeholder report.
C37_QualityLabelsAgree ==
    (Assembled /\ IsReport(report)) =>
        LET q == report.research_quality IN
        /\ report.data_quality = q.quality_score
        /\ q.evidence_pieces = Len(report.ai_opportunities)
        /\ report.company_name = "Unknown" => q.evidence_pieces = 0

C37_Witness ==
    /\ Assembled
    /\ IsReport(report)
    /\ facts = CompanyFacts("Acme", MaxProducts, Url("acme.sg"))
    /\ report.data_quality = "High"
    /\ report.research_quality.evidence_pieces = MaxItems


------------------------------------------------------------------------------
(* Properties of the web result cache *)

\* C38: after any sequence of requests every entry of research_cache is
\* stored under a non-empty key that is the entry's own company_name, and
\* no two entries share a key; a request that was rejected or whose run
\* raised leaves the cache as it found it, as does every step of a run; a
\* run that returned a named report stores that report's entry under its
\* name, in place of any entry stored there before, and touches no other.
C38_CacheKeyedConsistently ==
    /\ [](\A c \in research_cache : c.key # "" /\ c.value.company_name = c.key)
    /\ [](\A c, d \in research_cache : c.key = d.key => c = d)
    /\ [][/\ (pc # "done" \/ error # "") => research_cache' = research_cache
          /\ (pc = "done" /\ error = "" /\ report.company_name = "") =>
                research_cache' = research_cache
          /\ (pc = "done" /\ error = "" /\ report.company_name # "") =>
                /\ [key |-> report.company_name,
                    value |-> CacheValue(entry, report)] \in research_cache'
                /\ \A c \in research_cache \cup research_cache' :
                      c.key # report.company_name =>
                          (c \in research_cache /\ c \in research_cache')]_vars

\* the third request's run returned a report for a name the cache already
\* holds with another value, beside an entry for another name
C38_Witness ==
    /\ served = 2
    /\ pc = "done"
    /\ error = ""
    /\ Cardinality(research_cache) = 2
    /\ \E c \in research_cache :
          /\ c.key = report.company_name
          /\ c.value # CacheValue(entry, report)

====
